---------------------------- MODULE Spec2Model ----------------------------
(***************************************************************************)
(* Model of the mehlon world backing store:                                *)
(*   - the procedural generator MapgenMap   (mehlon-server/mapgen.rs)      *)
(*   - the storage backends and the codec   (mehlon-server/map_storage.rs) *)
(***************************************************************************)
EXTENDS Integers, Sequences, FiniteSets, TLC

(***************************************************************************)
(* Bounds of the model.                                                    *)
(***************************************************************************)
\* Edge length of a chunk.  The program uses 32; the model scales it down.
\* It has to stay >= 5 so that a tree (6 blocks tall, anchored at a local
\* height < CHUNKSIZE) reaches at most one chunk up, as it does with 32.
CHUNKSIZE == 5
\* Total number of gen_chunks_in_area calls over both generator instances.
MaxCalls == 4
\* Number of database errors (failing statements) in one behaviour.
MaxFailures == 1
\* SpecStorage: the host loop ticks at least once in this many store_chunk
\* calls.  (SpecBatching has no such cadence.)
MaxStoresPerTick == 2

\* The two independent MapgenMap instances.
Instances == {1, 2}
\* World seeds the instances are created with.
Seeds == {0, 1}

(***************************************************************************)
(* State.                                                                  *)
(***************************************************************************)
VARIABLES
  maps,       \* maps[i]: the MapgenMap instance i
  delivered,  \* delivered[i]: every callback invocation on instance i, in order
  calls,      \* calls[i]: the gen_chunks_in_area calls made on instance i
  direct,     \* the last call made on a private function of instance 1: [op, pos]
  config,     \* the Config: map_storage_path is None or Some(path)
  disk,       \* the database file at that path: its committed content
  backend,    \* the backend in use: "unstarted", "sqlite" or "null"
  sqlite,     \* the SqliteStorageBackend: [conn, ctr]
  ret,        \* the last backend call and what it returned
  stored,     \* position -> data of the latest store_chunk there that returned Ok
  kv_set,     \* key -> content of the latest set_global_kv of it that returned Ok
  failures,   \* number of database errors so far
  codec       \* the codec under test: [chunk, blob, res], each None or Some(_)

mapgen_vars == <<maps, delivered, calls, direct>>
storage_vars == <<config, disk, backend, sqlite, ret, stored, kv_set, failures>>
codec_vars == <<codec>>
vars ==
  <<maps, delivered, calls, direct, config, disk, backend, sqlite, ret, stored, kv_set,
    failures, codec>>

TotalCalls == Len(calls[1]) + Len(calls[2])

(***************************************************************************)
(* Vectors (nalgebra Vector3<isize>) are triples <<x, y, z>>.              *)
(***************************************************************************)
VAdd(a, b) == <<a[1] + b[1], a[2] + b[2], a[3] + b[3]>>
VScale(a, k) == <<a[1] * k, a[2] * k, a[3] * k>>

Max(a, b) == IF a >= b THEN a ELSE b
Min(a, b) == IF a <= b THEN a ELSE b

\* Rust's `/` on isize: division truncating towards zero.
TruncDiv(a, b) == IF a >= 0 THEN a \div b ELSE -((-a) \div b)
\* Vector3 / CHUNKSIZE, componentwise (pos_min.map(|v| v / CHUNKSIZE)).
VTruncDiv(a) ==
  <<TruncDiv(a[1], CHUNKSIZE), TruncDiv(a[2], CHUNKSIZE), TruncDiv(a[3], CHUNKSIZE)>>

\* Block position to the origin of the chunk that owns it (flooring).
btchn(v) ==
  <<(v[1] \div CHUNKSIZE) * CHUNKSIZE, (v[2] \div CHUNKSIZE) * CHUNKSIZE,
    (v[3] \div CHUNKSIZE) * CHUNKSIZE>>
\* Block position to the position inside its chunk.
btpic(v) == <<v[1] % CHUNKSIZE, v[2] % CHUNKSIZE, v[3] % CHUNKSIZE>>

(***************************************************************************)
(* Blocks and chunk data.                                                  *)
(***************************************************************************)
MapBlock ==
  {"Air", "Water", "Sand", "Ground", "Wood", "Stone", "Leaves", "Tree",
   "Cactus", "Coal"}

NBlocks == CHUNKSIZE * CHUNKSIZE * CHUNKSIZE
\* Index of a local position in MapChunkData (get_blk / get_blk_mut).
BlkIndex(p) == p[1] * CHUNKSIZE * CHUNKSIZE + p[2] * CHUNKSIZE + p[3]

PhaseOne == 0
PhaseTwo == 1
Done == 2

(***************************************************************************)
(* The noise fields and the placement stream.  Perlin noise and Pcg32 are  *)
(* library code whose values depend on the seed only; each seed of the     *)
(* model selects one table.                                                *)
(***************************************************************************)
\* `elev as isize` for the column at absolute (ax, ay).  Seed 0 is a plain
\* one block above the floor; seed 1 ranges from below the floor to above
\* the top of the floor-level chunks.
ElevBlocks(seed, ax, ay) ==
  CASE seed = 0 -> 1
    [] OTHER -> ((ax + 2 * ay) % (CHUNKSIZE + 4)) - 1

\* local_density > 1.0 - tree_density for the column at absolute (ax, ay).
\* Seed 0 has a forest on the two columns either side of the chunk border
\* x = 0; seed 1 has forest on every third diagonal.
LocalDensityHigh(seed, ax, ay) ==
  CASE seed = 0 -> ay = 1 /\ ax \in {-1, 0}
    [] OTHER -> (ax + ay) % 3 = 0

\* tpcg.gen::<f64>() > 0.9 for the n-th draw (n = 0, 1, ...) of a chunk.
\* tpcg is seeded from the world seed alone, so every chunk sees the same
\* stream from its start.
TpcgDraw_shared(seed, n) ==
  CASE seed = 0 -> TRUE
    [] OTHER -> (n + TotalCalls) % 2 = 1

TpcgDraw(seed, n) ==
  CASE seed = 0 -> TRUE
    [] OTHER -> n % 2 = 1

(***************************************************************************)
(* gen_chunk_phase_one(seed, pos): the free function.                      *)
(***************************************************************************)
\* el of the column (x, y) of the chunk at pos.
ColumnEl(seed, pos, x, y) ==
  Max(Min(ElevBlocks(seed, pos[1] + x, pos[2] + y) - pos[3], CHUNKSIZE), 0)

\* The block the column loop leaves at local (x, y, z).
ColumnBlock(seed, pos, x, y, z) ==
  LET el == ColumnEl(seed, pos, x, y) IN
  IF pos[3] < 0
    THEN (IF z < el THEN "Stone" ELSE "Water")
    ELSE IF z < el THEN "Ground"
         ELSE IF pos[3] = 0 /\ el <= 0 /\ z = 0 THEN "Water"
         ELSE "Air"

ColumnDraws_full_height(seed, pos, x, y) ==
  LET el == ColumnEl(seed, pos, x, y) IN
  /\ pos[3] >= 0
  /\ el > 0 /\ el <= CHUNKSIZE
  /\ LocalDensityHigh(seed, pos[1] + x, pos[2] + y)

\* Whether column (x, y) reaches the tree-spawning branch and samples tnoise
\* above the threshold, i.e. whether it consumes a draw of tpcg.
ColumnDraws(seed, pos, x, y) ==
  LET el == ColumnEl(seed, pos, x, y) IN
  /\ pos[3] >= 0
  /\ el > 0 /\ el < CHUNKSIZE
  /\ LocalDensityHigh(seed, pos[1] + x, pos[2] + y)

\* The column loop (x outer, y inner) from column k on; n draws of tpcg were
\* consumed so far and pts are the spawn points pushed so far.
RECURSIVE SpawnPointsFrom(_, _, _, _, _)
SpawnPointsFrom(seed, pos, k, n, pts) ==
  IF k >= CHUNKSIZE * CHUNKSIZE THEN pts
  ELSE LET x == k \div CHUNKSIZE
           y == k % CHUNKSIZE
       IN IF ColumnDraws(seed, pos, x, y)
            THEN SpawnPointsFrom(seed, pos, k + 1, n + 1,
                   IF TpcgDraw(seed, n)
                     THEN Append(pts, VAdd(pos, <<x, y, ColumnEl(seed, pos, x, y)>>))
                     ELSE pts)
            ELSE SpawnPointsFrom(seed, pos, k + 1, n, pts)

gen_chunk_phase_one(seed, pos) ==
  [data |-> [i \in 0 .. NBlocks - 1 |->
               ColumnBlock(seed, pos, i \div (CHUNKSIZE * CHUNKSIZE),
                           (i \div CHUNKSIZE) % CHUNKSIZE, i % CHUNKSIZE)],
   generation_phase |-> PhaseOne,
   tree_spawn_points |-> SpawnPointsFrom(seed, pos, 0, 0, <<>>)]

(***************************************************************************)
(* Schematics.                                                             *)
(***************************************************************************)
\* tree_schematic().items in push order: the 3x3 leaf layers at heights
\* 3, 4, 5 (x outer, y inner), then the trunk at heights 0..3.
tree_schematic_sunk ==
  [k \in 1 .. 27 |->
     <<<<((k - 1) \div 9) - 1, (((k - 1) \div 3) % 3) - 1, ((k - 1) % 3) - 1>>,
       "Leaves">>]
  \o [z \in 1 .. 4 |-> <<<<0, 0, z - 5>>, "Tree">>]

tree_schematic ==
  [k \in 1 .. 27 |->
     <<<<((k - 1) \div 9) - 1, (((k - 1) \div 3) % 3) - 1, 3 + ((k - 1) % 3)>>,
       "Leaves">>]
  \o [z \in 1 .. 4 |-> <<<<0, 0, z - 1>>, "Tree">>]

(***************************************************************************)
(* MapgenMap.  A map is [seed, chunks, panicked, stamped]: chunks is the   *)
(* HashMap as a function from chunk positions to chunk records; panicked   *)
(* records that an unwrap() failed, which aborts the call; stamped is the  *)
(* log of the spawn points spawn_tree_mapgen was run on, in order.         *)
(***************************************************************************)
\* The ranges (pos_min, pos_max) the consumers ask for.
AreaRequests ==
  {<<<<-CHUNKSIZE, 0, 0>>, <<-CHUNKSIZE, 0, 0>>>>,
   <<<<CHUNKSIZE, 0, 0>>, <<CHUNKSIZE, 0, 0>>>>,
   <<<<-CHUNKSIZE, 0, 0>>, <<0, 0, 0>>>>}

\* The chunk positions within 2 chunks of a requested range.
World ==
  UNION {{<<x * CHUNKSIZE, y * CHUNKSIZE, z * CHUNKSIZE>> :
            x \in (a[1][1] \div CHUNKSIZE) - 2 .. (a[2][1] \div CHUNKSIZE) + 2,
            y \in (a[1][2] \div CHUNKSIZE) - 2 .. (a[2][2] \div CHUNKSIZE) + 2,
            z \in (a[1][3] \div CHUNKSIZE) - 2 .. (a[2][3] \div CHUNKSIZE) + 2} :
         a \in AreaRequests}

\* gen_chunk_phase_one is a pure function of (seed, pos): its results for the
\* positions of World, evaluated once.
PhaseOneChunks == [s \in Seeds |-> [p \in World |-> gen_chunk_phase_one(s, p)]]

MapgenMap_new(seed) ==
  [seed |-> seed, chunks |-> <<>>, panicked |-> FALSE, stamped |-> <<>>]

HasChunk(map, pos) == pos \in DOMAIN map.chunks

Map_gen_chunk_phase_one_overwrite(map, pos) ==
  [map EXCEPT !.chunks =
     [p \in DOMAIN map.chunks \cup {pos} |->
        IF p = pos THEN gen_chunk_phase_one(map.seed, pos) ELSE map.chunks[p]]]

\* MapgenMap::gen_chunk_phase_one: insert only into a vacant entry.
Map_gen_chunk_phase_one(map, pos) ==
  IF HasChunk(map, pos) THEN map
  ELSE [map EXCEPT !.chunks =
          [p \in DOMAIN map.chunks \cup {pos} |->
             IF p = pos
               THEN (IF map.seed \in Seeds /\ pos \in World
                       THEN PhaseOneChunks[map.seed][pos]
                       ELSE gen_chunk_phase_one(map.seed, pos))
             ELSE map.chunks[p]]]

SpawnItem_on_demand(map, pos, item) ==
  LET target == VAdd(pos, item[1])
      chunk_pos == btchn(target)
      pos_in_chunk == btpic(target)
      m == Map_gen_chunk_phase_one(map, chunk_pos)
  IN IF map.panicked THEN map
     ELSE [m EXCEPT !.chunks[chunk_pos].data[BlkIndex(pos_in_chunk)] = item[2]]

SpawnItem_if_air(map, pos, item) ==
  LET target == VAdd(pos, item[1])
      chunk_pos == btchn(target)
      pos_in_chunk == btpic(target)
  IN IF map.panicked THEN map
     ELSE IF ~HasChunk(map, chunk_pos) THEN [map EXCEPT !.panicked = TRUE]
     ELSE IF map.chunks[chunk_pos].data[BlkIndex(pos_in_chunk)] # "Air" THEN map
     ELSE [map EXCEPT !.chunks[chunk_pos].data[BlkIndex(pos_in_chunk)] = item[2]]

\* One item of spawn_schematic_mapgen: get_blk_p1_mut(pos + bpos).unwrap()
\* and the write through the returned reference.
SpawnItem(map, pos, item) ==
  LET target == VAdd(pos, item[1])
      chunk_pos == btchn(target)
      pos_in_chunk == btpic(target)
  IN IF map.panicked THEN map
     ELSE IF ~HasChunk(map, chunk_pos) THEN [map EXCEPT !.panicked = TRUE]
     ELSE [map EXCEPT !.chunks[chunk_pos].data[BlkIndex(pos_in_chunk)] = item[2]]

\* The item loop of spawn_schematic_mapgen from item k on; a failed unwrap()
\* ends it.
RECURSIVE spawn_schematic_mapgen(_, _, _, _)
spawn_schematic_mapgen(map, pos, schematic, k) ==
  IF k > Len(schematic) THEN map
  ELSE LET m == SpawnItem(map, pos, schematic[k]) IN
       IF m.panicked THEN m
       ELSE spawn_schematic_mapgen(m, pos, schematic, k + 1)

spawn_tree_mapgen(map, pos) ==
  LET m == spawn_schematic_mapgen(map, pos, tree_schematic, 1) IN
  IF m.panicked THEN m ELSE [m EXCEPT !.stamped = Append(@, pos)]

\* `for p in tree_spawn_points { spawn_tree_mapgen(self, p) }` from point k on.
RECURSIVE SpawnTrees(_, _, _)
SpawnTrees(map, pts, k) ==
  IF k > Len(pts) THEN map
  ELSE LET m == spawn_tree_mapgen(map, pts[k]) IN
       IF m.panicked THEN m
       ELSE SpawnTrees(m, pts, k + 1)

Map_gen_chunk_phase_two_eq(map, pos) ==
  IF map.panicked THEN map
  ELSE IF ~HasChunk(map, pos) THEN [map EXCEPT !.panicked = TRUE]
  ELSE IF map.chunks[pos].generation_phase = PhaseTwo THEN map
  ELSE SpawnTrees(
         [map EXCEPT !.chunks[pos].generation_phase = PhaseTwo,
                     !.chunks[pos].tree_spawn_points = <<>>],
         map.chunks[pos].tree_spawn_points, 1)

Map_gen_chunk_phase_two_keep_points(map, pos) ==
  IF map.panicked THEN map
  ELSE IF ~HasChunk(map, pos) THEN [map EXCEPT !.panicked = TRUE]
  ELSE IF map.chunks[pos].generation_phase >= PhaseTwo THEN map
  ELSE SpawnTrees(
         [map EXCEPT !.chunks[pos].generation_phase = PhaseTwo],
         map.chunks[pos].tree_spawn_points, 1)

\* MapgenMap::gen_chunk_phase_two.
Map_gen_chunk_phase_two(map, pos) ==
  IF map.panicked THEN map
  ELSE IF ~HasChunk(map, pos) THEN [map EXCEPT !.panicked = TRUE]
  ELSE IF map.chunks[pos].generation_phase >= PhaseTwo THEN map
  ELSE SpawnTrees(
         [map EXCEPT !.chunks[pos].generation_phase = PhaseTwo,
                     !.chunks[pos].tree_spawn_points = <<>>],
         map.chunks[pos].tree_spawn_points, 1)

(***************************************************************************)
(* gen_chunks_in_area.                                                     *)
(***************************************************************************)
\* The chunk positions visited by `for x in lo.x ..= hi.x { for y .. { for z`
\* over grid coordinates, each multiplied by CHUNKSIZE, in loop order.
AreaSeq(lo, hi) ==
  LET nx == Max(hi[1] - lo[1] + 1, 0)
      ny == Max(hi[2] - lo[2] + 1, 0)
      nz == Max(hi[3] - lo[3] + 1, 0)
  IN [k \in 1 .. nx * ny * nz |->
        VScale(<<lo[1] + ((k - 1) \div (ny * nz)),
                 lo[2] + (((k - 1) \div nz) % ny),
                 lo[3] + ((k - 1) % nz)>>, CHUNKSIZE)]

Pad_none(lo, hi, s) == AreaSeq(lo, hi)

Pad_at_most_one(lo, hi, s) ==
  AreaSeq(VAdd(lo, <<-Min(s, 1), -Min(s, 1), -Min(s, 1)>>),
          VAdd(hi, <<Min(s, 1), Min(s, 1), Min(s, 1)>>))

\* The range padded by s chunks on every side, in loop order.
Pad(lo, hi, s) == AreaSeq(VAdd(lo, <<-s, -s, -s>>), VAdd(hi, <<s, s, s>>))

SthToGenerate_first(map, lo, hi) ==
  \E k \in DOMAIN AreaSeq(lo, hi) :
     LET pos == AreaSeq(lo, hi)[k] IN
     k = 1 /\ (~HasChunk(map, pos) \/ map.chunks[pos].generation_phase # Done)

\* The first loop nest: whether some chunk of the range is absent or not Done.
SthToGenerate(map, lo, hi) ==
  \E k \in DOMAIN AreaSeq(lo, hi) :
     LET pos == AreaSeq(lo, hi)[k] IN
     ~HasChunk(map, pos) \/ map.chunks[pos].generation_phase # Done

\* The second loop nest: gen_chunk_phase_one on every position of seq.  Each
\* call fills one vacant entry from (seed, pos) alone, so the entries the loop
\* leaves do not depend on its order.
PhaseOneLoop(map, seq) ==
  LET new == {seq[k] : k \in DOMAIN seq} \ DOMAIN map.chunks IN
  [map EXCEPT !.chunks =
     [p \in DOMAIN map.chunks \cup new |->
        IF p \in new THEN Map_gen_chunk_phase_one(map, p).chunks[p]
        ELSE map.chunks[p]]]

\* The third loop nest from position k on; a failed unwrap() ends it.
RECURSIVE PhaseTwoLoop(_, _, _)
PhaseTwoLoop(map, seq, k) ==
  IF k > Len(seq) THEN map
  ELSE LET m == Map_gen_chunk_phase_two(map, seq[k]) IN
       IF m.panicked THEN m
       ELSE PhaseTwoLoop(m, seq, k + 1)

DeliverChunk_always(st, pos) ==
  IF st.map.panicked THEN st
  ELSE IF ~HasChunk(st.map, pos) THEN [st EXCEPT !.map.panicked = TRUE]
  ELSE [map |-> [st.map EXCEPT !.chunks[pos].generation_phase = Done],
        out |-> Append(st.out, [pos |-> pos, data |-> st.map.chunks[pos].data])]

\* One iteration of the last loop nest on st = [map, out]: out is the
\* sequence of callback invocations f(pos, &chk.data) of this call.
DeliverChunk(st, pos) ==
  IF st.map.panicked THEN st
  ELSE IF ~HasChunk(st.map, pos) THEN [st EXCEPT !.map.panicked = TRUE]
  ELSE IF st.map.chunks[pos].generation_phase # Done
    THEN [map |-> [st.map EXCEPT !.chunks[pos].generation_phase = Done],
          out |-> Append(st.out, [pos |-> pos, data |-> st.map.chunks[pos].data])]
    ELSE st

RECURSIVE DeliverLoop(_, _, _)
DeliverLoop(st, seq, k) ==
  IF k > Len(seq) THEN st
  ELSE LET st2 == DeliverChunk(st, seq[k]) IN
       IF st2.map.panicked THEN st2
       ELSE DeliverLoop(st2, seq, k + 1)

RECURSIVE DeliverLoop_always(_, _, _)
DeliverLoop_always(st, seq, k) ==
  IF k > Len(seq) THEN st
  ELSE LET st2 == DeliverChunk_always(st, seq[k]) IN
       IF st2.map.panicked THEN st2
       ELSE DeliverLoop_always(st2, seq, k + 1)

gen_chunks_in_area_unmemoized(map, pos_min, pos_max) ==
  LET lo == VTruncDiv(pos_min)
      hi == VTruncDiv(pos_max)
  IN DeliverLoop_always(
       [map |-> PhaseTwoLoop(PhaseOneLoop(map, Pad(lo, hi, 2)), Pad(lo, hi, 1), 1),
        out |-> <<>>],
       AreaSeq(lo, hi), 1)

gen_chunks_in_area_narrow(map, pos_min, pos_max) ==
  LET lo == VTruncDiv(pos_min)
      hi == VTruncDiv(pos_max)
  IN IF ~SthToGenerate(map, lo, hi) THEN [map |-> map, out |-> <<>>]
     ELSE DeliverLoop(
            [map |-> PhaseTwoLoop(PhaseOneLoop(map, Pad(lo, hi, 2)),
                                  Pad(lo, hi, 0), 1),
             out |-> <<>>],
            AreaSeq(lo, hi), 1)

\* The whole call: the map it leaves and the callbacks it made, in order.
gen_chunks_in_area(map, pos_min, pos_max) ==
  LET lo == VTruncDiv(pos_min)
      hi == VTruncDiv(pos_max)
  IN IF ~SthToGenerate(map, lo, hi) THEN [map |-> map, out |-> <<>>]
     ELSE DeliverLoop(
            [map |-> PhaseTwoLoop(PhaseOneLoop(map, Pad(lo, hi, 2)),
                                  Pad(lo, hi, 1), 1),
             out |-> <<>>],
            AreaSeq(lo, hi), 1)

(***************************************************************************)
(* The generator's operations.                                             *)
(***************************************************************************)
GenChunksInArea(i, pos_min, pos_max) ==
  /\ TotalCalls < MaxCalls
  /\ ~maps[i].panicked
  /\ LET r == gen_chunks_in_area(maps[i], pos_min, pos_max) IN
       /\ maps' = [maps EXCEPT ![i] = r.map]
       /\ delivered' = [delivered EXCEPT ![i] = delivered[i] \o r.out]
  /\ calls' = [calls EXCEPT ![i] = Append(calls[i], [pos_min |-> pos_min, pos_max |-> pos_max])]
  /\ UNCHANGED direct
  /\ UNCHANGED storage_vars
  /\ UNCHANGED codec_vars

\* No direct call yet.
NoDirect == [op |-> "none", pos |-> <<>>]

\* Chunk positions and anchors of the direct calls: the four chunks around
\* the border x = 0 at floor level and above it, two anchors whose trees
\* overlap across that border, and one inside a chunk.
StampChunks ==
  {<<0, 0, 0>>, <<-CHUNKSIZE, 0, 0>>, <<0, 0, CHUNKSIZE>>, <<-CHUNKSIZE, 0, CHUNKSIZE>>}
StampAnchors == {<<0, 1, 1>>, <<-1, 1, 1>>, <<2, 2, 0>>}

\* MapgenMap::gen_chunk_phase_one called on instance 1.
GenChunkPhaseOne(pos) ==
  /\ ~maps[1].panicked
  /\ maps' = [maps EXCEPT ![1] = Map_gen_chunk_phase_one(maps[1], pos)]
  /\ direct' = [op |-> "gen_chunk_phase_one", pos |-> pos]
  /\ UNCHANGED <<delivered, calls>>
  /\ UNCHANGED storage_vars
  /\ UNCHANGED codec_vars

\* spawn_tree_mapgen called on instance 1, once for an anchor.
SpawnTreeMapgen(pos) ==
  /\ ~maps[1].panicked
  /\ \A k \in DOMAIN maps[1].stamped : maps[1].stamped[k] # pos
  /\ maps' = [maps EXCEPT ![1] = spawn_tree_mapgen(maps[1], pos)]
  /\ direct' = [op |-> "spawn_tree_mapgen", pos |-> pos]
  /\ UNCHANGED <<delivered, calls>>
  /\ UNCHANGED storage_vars
  /\ UNCHANGED codec_vars

(***************************************************************************)
(* The block codec and the chunk serialization (map_storage.rs).           *)
(***************************************************************************)
None == <<>>
Some(x) == <<x>>
Ok(v) == [ok |-> TRUE, val |-> v]
Err == [ok |-> FALSE, val |-> None]

mapblock_to_number_collide(b) ==
  CASE b = "Air" -> 0
    [] b = "Water" -> 1
    [] b = "Sand" -> 2
    [] b = "Ground" -> 3
    [] b = "Wood" -> 4
    [] b = "Stone" -> 5
    [] b = "Leaves" -> 6
    [] b = "Tree" -> 7
    [] b = "Cactus" -> 8
    [] b = "Coal" -> 8

mapblock_to_number(b) ==
  CASE b = "Air" -> 0
    [] b = "Water" -> 1
    [] b = "Sand" -> 2
    [] b = "Ground" -> 3
    [] b = "Wood" -> 4
    [] b = "Stone" -> 5
    [] b = "Leaves" -> 6
    [] b = "Tree" -> 7
    [] b = "Cactus" -> 8
    [] b = "Coal" -> 9

number_to_mapblock(n) ==
  CASE n = 0 -> Some("Air")
    [] n = 1 -> Some("Water")
    [] n = 2 -> Some("Sand")
    [] n = 3 -> Some("Ground")
    [] n = 4 -> Some("Wood")
    [] n = 5 -> Some("Stone")
    [] n = 6 -> Some("Leaves")
    [] n = 7 -> Some("Tree")
    [] n = 8 -> Some("Cactus")
    [] n = 9 -> Some("Coal")
    [] OTHER -> None

\* MapChunkData::fully_air().
fully_air == [i \in 0 .. NBlocks - 1 |-> "Air"]

\* The gzip stream of flate2 (library code), kept as a frame around the
\* bytes: the two magic bytes, the payload, and the length trailer mod 256.
GzEncode(bytes) == <<31, 139>> \o bytes \o <<Len(bytes) % 256>>
\* Some(payload), or None where the decoder reports an error.
GzDecode(stream) ==
  IF /\ Len(stream) >= 3
     /\ stream[1] = 31 /\ stream[2] = 139
     /\ stream[Len(stream)] = (Len(stream) - 3) % 256
    THEN Some(SubSeq(stream, 3, Len(stream) - 1))
    ELSE None

serialize_mapchunk_data(data) ==
  <<0>> \o GzEncode([k \in 1 .. NBlocks |-> mapblock_to_number(data[k - 1])])

deserialize_mapchunk_data_any_version(blob) ==
  IF Len(blob) = 0 THEN Err
  ELSE LET buffer == GzDecode(Tail(blob)) IN
       IF buffer = None THEN Err
       ELSE IF Len(buffer[1]) < NBlocks THEN Err
       ELSE IF \E k \in 1 .. NBlocks : number_to_mapblock(buffer[1][k]) = None THEN Err
       ELSE Ok([i \in 0 .. NBlocks - 1 |-> number_to_mapblock(buffer[1][i + 1])[1]])

deserialize_mapchunk_data_lenient(blob) ==
  IF Len(blob) = 0 THEN Err
  ELSE IF blob[1] # 0 THEN Err
  ELSE LET buffer == GzDecode(Tail(blob)) IN
       IF buffer = None THEN Err
       ELSE Ok([i \in 0 .. NBlocks - 1 |->
                  IF i + 1 > Len(buffer[1]) \/ number_to_mapblock(buffer[1][i + 1]) = None
                    THEN "Air"
                    ELSE number_to_mapblock(buffer[1][i + 1])[1]])

\* Ok(chunk data) or Err.
deserialize_mapchunk_data(blob) ==
  IF Len(blob) = 0 THEN Err
  ELSE IF blob[1] # 0 THEN Err
  ELSE LET buffer == GzDecode(Tail(blob)) IN
       IF buffer = None THEN Err
       ELSE IF Len(buffer[1]) < NBlocks THEN Err
       ELSE IF \E k \in 1 .. NBlocks : number_to_mapblock(buffer[1][k]) = None THEN Err
       ELSE Ok([i \in 0 .. NBlocks - 1 |-> number_to_mapblock(buffer[1][i + 1])[1]])

(***************************************************************************)
(* SqliteStorageBackend.                                                   *)
(*   disk   = [state, app_id, user_version, chunks, kvstore]: the file and *)
(*            what is committed to it                                      *)
(*   sqlite = [conn, ctr], conn = [autocommit, chunks, kvstore, pending]:  *)
(*            the tables as the connection sees them (uncommitted writes   *)
(*            included) and the number of chunk INSERTs of the open        *)
(*            transaction.                                                 *)
(* Every operation returns [sqlite, disk, res] with res = Ok(v) or Err.    *)
(* Its argument fail names the statement that fails with a database error  *)
(* ("none": no statement fails); a failing statement changes nothing.      *)
(***************************************************************************)
MEHLON_SQLITE_APP_ID == -2064732612
USER_VERSION == 1
WRITES_PER_TRANSACTION == 50

\* A database file right after sqlite created it.
EmptyFile ==
  [state |-> "file", app_id |-> 0, user_version |-> 0, chunks |-> <<>>, kvstore |-> <<>>]
\* No file at the path, and a path sqlite cannot open as a database.
AbsentFile == [EmptyFile EXCEPT !.state = "absent"]
UnopenableFile == [EmptyFile EXCEPT !.state = "unopenable"]

InsertOrIgnore(table, key, content) ==
  [k \in DOMAIN table \cup {key} |-> IF k \in DOMAIN table THEN table[k] ELSE content]

\* INSERT OR REPLACE INTO table (key, content).
InsertOrReplace(table, key, content) ==
  [k \in DOMAIN table \cup {key} |-> IF k = key THEN content ELSE table[k]]

Commit_one_row(sq, dk) ==
  LET changed == {r \in DOMAIN sq.conn.chunks :
                    r \notin DOMAIN dk.chunks \/ dk.chunks[r] # sq.conn.chunks[r]}
      r == CHOOSE c \in changed : TRUE
  IN [sqlite |-> [sq EXCEPT !.conn.autocommit = TRUE, !.conn.pending = 0],
      disk |-> [dk EXCEPT !.chunks = IF changed = {} THEN dk.chunks
                                     ELSE InsertOrReplace(dk.chunks, r, sq.conn.chunks[r]),
                          !.kvstore = sq.conn.kvstore]]

Commit(sq, dk) ==
  [sqlite |-> [sq EXCEPT !.conn.autocommit = TRUE, !.conn.pending = 0],
   disk |-> [dk EXCEPT !.chunks = sq.conn.chunks, !.kvstore = sq.conn.kvstore]]

expect_user_ver_app_id_only(file) == file.app_id = MEHLON_SQLITE_APP_ID

\* expect_user_ver: whether both header fields are the expected ones.
expect_user_ver(file) ==
  file.app_id = MEHLON_SQLITE_APP_ID /\ file.user_version = USER_VERSION

\* init_db on a freshly created file; [ok, disk].
init_db(fail) ==
  IF fail = "set_app_id" THEN [ok |-> FALSE, disk |-> EmptyFile]
  ELSE IF fail = "set_user_version"
    THEN [ok |-> FALSE, disk |-> [EmptyFile EXCEPT !.app_id = MEHLON_SQLITE_APP_ID]]
  ELSE [ok |-> fail # "create_table",
        disk |-> [EmptyFile EXCEPT !.app_id = MEHLON_SQLITE_APP_ID,
                                   !.user_version = USER_VERSION]]

\* from_conn's Self { conn, ctr : 0 } on the opened file.
NewBackend(dk) ==
  [conn |-> [autocommit |-> TRUE, chunks |-> dk.chunks, kvstore |-> dk.kvstore,
             pending |-> 0],
   ctr |-> 0]

\* SqliteStorageBackend::open_or_create with from_conn; [ok, disk].
open_or_create(dk, fail) ==
  IF dk.state = "unopenable" THEN [ok |-> FALSE, disk |-> dk]
  ELSE IF dk.state = "absent"
    THEN (IF fail = "open" THEN [ok |-> FALSE, disk |-> dk] ELSE init_db(fail))
  ELSE [ok |-> fail # "pragma" /\ expect_user_ver(dk), disk |-> dk]

storage_backend_from_config_unchecked(cfg, dk, fail) ==
  IF cfg.map_storage_path = None THEN [backend |-> "null", disk |-> dk]
  ELSE [backend |-> "sqlite", disk |-> open_or_create(dk, fail).disk]

\* sqlite_backend_from_config and storage_backend_from_config:
\* [backend, disk].
storage_backend_from_config(cfg, dk, fail) ==
  IF cfg.map_storage_path = None THEN [backend |-> "null", disk |-> dk]
  ELSE LET r == open_or_create(dk, fail) IN
       [backend |-> IF r.ok THEN "sqlite" ELSE "null", disk |-> r.disk]

Sqlite_store_chunk(sq, dk, pos, data, fail) ==
  LET p == VTruncDiv(pos)
      blob == serialize_mapchunk_data(data)
      commits == sq.ctr = 0 /\ ~sq.conn.autocommit
      sq1 == [sq EXCEPT !.ctr = IF sq.ctr = 0 THEN WRITES_PER_TRANSACTION ELSE sq.ctr - 1]
  IN IF commits /\ fail = "commit" THEN [sqlite |-> sq1, disk |-> dk, res |-> Err]
     ELSE LET c == IF commits THEN Commit(sq1, dk) ELSE [sqlite |-> sq1, disk |-> dk]
              begins == c.sqlite.conn.autocommit
          IN IF begins /\ fail = "begin" THEN [sqlite |-> c.sqlite, disk |-> c.disk, res |-> Err]
             ELSE LET sq2 == [c.sqlite EXCEPT !.conn.autocommit = FALSE] IN
                  IF fail = "insert" THEN [sqlite |-> sq2, disk |-> c.disk, res |-> Err]
                  ELSE [sqlite |-> [sq2 EXCEPT
                                      !.conn.chunks = InsertOrReplace(sq2.conn.chunks, p, blob),
                                      !.conn.pending = sq2.conn.pending + 1],
                        disk |-> c.disk, res |-> Ok(None)]

Sqlite_tick_no_reset(sq, dk, fail) ==
  IF ~sq.conn.autocommit
    THEN (IF fail = "commit" THEN [sqlite |-> sq, disk |-> dk, res |-> Err]
          ELSE [sqlite |-> Commit(sq, dk).sqlite, disk |-> Commit(sq, dk).disk,
                res |-> Ok(None)])
    ELSE [sqlite |-> sq, disk |-> dk, res |-> Ok(None)]

Sqlite_tick(sq, dk, fail) ==
  IF ~sq.conn.autocommit
    THEN LET sq1 == [sq EXCEPT !.ctr = WRITES_PER_TRANSACTION] IN
         IF fail = "commit" THEN [sqlite |-> sq1, disk |-> dk, res |-> Err]
         ELSE [sqlite |-> Commit(sq1, dk).sqlite, disk |-> Commit(sq1, dk).disk,
               res |-> Ok(None)]
    ELSE [sqlite |-> sq, disk |-> dk, res |-> Ok(None)]

Sqlite_load_chunk(sq, dk, pos, fail) ==
  LET p == VTruncDiv(pos) IN
  [sqlite |-> sq, disk |-> dk,
   res |-> IF fail = "select" THEN Err
           ELSE IF p \in DOMAIN sq.conn.chunks
             THEN LET chunk == deserialize_mapchunk_data(sq.conn.chunks[p]) IN
                  IF chunk.ok THEN Ok(Some(chunk.val)) ELSE Err
             ELSE Ok(None)]

Sqlite_get_global_kv_committed(sq, dk, key, fail) ==
  [sqlite |-> sq, disk |-> dk,
   res |-> IF fail = "select" THEN Err
           ELSE IF key \in DOMAIN dk.kvstore THEN Ok(Some(dk.kvstore[key]))
           ELSE Ok(None)]

Sqlite_get_global_kv(sq, dk, key, fail) ==
  [sqlite |-> sq, disk |-> dk,
   res |-> IF fail = "select" THEN Err
           ELSE IF key \in DOMAIN sq.conn.kvstore THEN Ok(Some(sq.conn.kvstore[key]))
           ELSE Ok(None)]

Sqlite_set_global_kv_durable(sq, dk, key, content, fail) ==
  IF fail = "insert" THEN [sqlite |-> sq, disk |-> dk, res |-> Err]
  ELSE LET sq1 == [sq EXCEPT !.conn.kvstore = InsertOrReplace(sq.conn.kvstore, key, content)] IN
       [sqlite |-> sq1, disk |-> [dk EXCEPT !.kvstore = sq1.conn.kvstore], res |-> Ok(None)]

\* Outside a transaction the connection commits the statement on its own.
Sqlite_set_global_kv(sq, dk, key, content, fail) ==
  IF fail = "insert" THEN [sqlite |-> sq, disk |-> dk, res |-> Err]
  ELSE LET sq1 == [sq EXCEPT !.conn.kvstore = InsertOrReplace(sq.conn.kvstore, key, content)] IN
       [sqlite |-> sq1,
        disk |-> IF sq.conn.autocommit THEN [dk EXCEPT !.kvstore = sq1.conn.kvstore] ELSE dk,
        res |-> Ok(None)]

(***************************************************************************)
(* NullStorageBackend.                                                     *)
(***************************************************************************)
Null_store_chunk(sq, dk, pos, data) == [sqlite |-> sq, disk |-> dk, res |-> Ok(None)]
Null_tick(sq, dk) == [sqlite |-> sq, disk |-> dk, res |-> Ok(None)]
Null_load_chunk_default(sq, dk, pos) ==
  [sqlite |-> sq, disk |-> dk, res |-> Ok(Some(fully_air))]
Null_load_chunk(sq, dk, pos) == [sqlite |-> sq, disk |-> dk, res |-> Ok(None)]
Null_get_global_kv(sq, dk, key) == [sqlite |-> sq, disk |-> dk, res |-> Ok(None)]
Null_set_global_kv(sq, dk, key, content) == [sqlite |-> sq, disk |-> dk, res |-> Ok(None)]

(***************************************************************************)
(* The storage operations as the server calls them on the boxed backend.   *)
(***************************************************************************)
\* Chunk-aligned positions the server stores and loads.
AlignedPositions == {<<0, 0, 0>>, <<-CHUNKSIZE, 0, CHUNKSIZE>>}
\* Chunk contents the server stores: an empty chunk and one with every block.
ChunkSamples ==
  {fully_air,
   [i \in 0 .. NBlocks - 1 |-> number_to_mapblock(i % 10)[1]]}
Keys == {"seed", "players"}
Contents == {<<42>>, <<7, 7>>}

ConfigPaths == {None, Some("map.sqlite")}
InitialDisks ==
  {AbsentFile, UnopenableFile}
  \cup {[EmptyFile EXCEPT !.app_id = a, !.user_version = v] :
          a \in {MEHLON_SQLITE_APP_ID, 0}, v \in {USER_VERSION, 2}}

NoSqlite == [conn |-> None, ctr |-> 0]
NoCall == [op |-> "none", arg |-> None, ok |-> TRUE, val |-> None]
\* No codec input.
NoCodec == [chunk |-> None, blob |-> None, res |-> None]

CanFail(fail) == fail = "none" \/ failures < MaxFailures
Started == backend \in {"sqlite", "null"}

\* What a call leaves: the backend and file, the call and its result.  An
\* error of a failing statement counts as a database error; an error of the
\* decoder does not.
Returns(r, op, arg, fail) ==
  /\ sqlite' = r.sqlite
  /\ disk' = r.disk
  /\ ret' = [op |-> op, arg |-> arg, ok |-> r.res.ok, val |-> r.res.val]
  /\ failures' = IF r.res.ok \/ fail = "none" THEN failures ELSE failures + 1

Startup(fail) ==
  /\ backend = "unstarted"
  /\ CanFail(fail)
  /\ LET r == storage_backend_from_config(config, disk, fail) IN
       /\ backend' = r.backend
       /\ disk' = r.disk
       /\ sqlite' = IF r.backend = "sqlite" THEN NewBackend(r.disk) ELSE NoSqlite
       /\ failures' = IF fail # "none" /\ r.backend = "null" /\ config.map_storage_path # None
                        THEN failures + 1 ELSE failures
  /\ UNCHANGED <<config, ret, stored, kv_set>>
  /\ UNCHANGED mapgen_vars
  /\ UNCHANGED codec_vars

\* The write counter is still within MaxStoresPerTick of a fresh backend
\* or of a tick.
WithinCadence ==
  sqlite.ctr = 0 \/ sqlite.ctr > WRITES_PER_TRANSACTION - MaxStoresPerTick

StoreChunk(pos, data, fail) ==
  /\ Started
  /\ CanFail(fail)
  /\ LET r == IF backend = "sqlite" THEN Sqlite_store_chunk(sqlite, disk, pos, data, fail)
              ELSE Null_store_chunk(sqlite, disk, pos, data)
     IN /\ Returns(r, "store_chunk", pos, fail)
        /\ stored' = IF r.res.ok THEN (pos :> data) @@ stored ELSE stored
  /\ UNCHANGED <<config, backend, kv_set>>
  /\ UNCHANGED mapgen_vars
  /\ UNCHANGED codec_vars

Tick(fail) ==
  /\ Started
  /\ CanFail(fail)
  /\ Returns(IF backend = "sqlite" THEN Sqlite_tick(sqlite, disk, fail)
             ELSE Null_tick(sqlite, disk), "tick", None, fail)
  /\ UNCHANGED <<config, backend, stored, kv_set>>
  /\ UNCHANGED mapgen_vars
  /\ UNCHANGED codec_vars

LoadChunk(pos, fail) ==
  /\ Started
  /\ CanFail(fail)
  /\ Returns(IF backend = "sqlite" THEN Sqlite_load_chunk(sqlite, disk, pos, fail)
             ELSE Null_load_chunk(sqlite, disk, pos), "load_chunk", pos, fail)
  /\ UNCHANGED <<config, backend, stored, kv_set>>
  /\ UNCHANGED mapgen_vars
  /\ UNCHANGED codec_vars

GetGlobalKv(key, fail) ==
  /\ Started
  /\ CanFail(fail)
  /\ Returns(IF backend = "sqlite" THEN Sqlite_get_global_kv(sqlite, disk, key, fail)
             ELSE Null_get_global_kv(sqlite, disk, key), "get_global_kv", key, fail)
  /\ UNCHANGED <<config, backend, stored, kv_set>>
  /\ UNCHANGED mapgen_vars
  /\ UNCHANGED codec_vars

SetGlobalKv(key, content, fail) ==
  /\ Started
  /\ CanFail(fail)
  /\ LET r == IF backend = "sqlite"
                THEN Sqlite_set_global_kv(sqlite, disk, key, content, fail)
              ELSE Null_set_global_kv(sqlite, disk, key, content)
     IN /\ Returns(r, "set_global_kv", key, fail)
        /\ kv_set' = IF r.res.ok THEN (key :> content) @@ kv_set ELSE kv_set
  /\ UNCHANGED <<config, backend, stored>>
  /\ UNCHANGED mapgen_vars
  /\ UNCHANGED codec_vars

\* Raw block positions either side of the chunk border x = 0, and the origin
\* of the chunk left of it.
RawPositions == {<<-1, 0, 0>>, <<1, 0, 0>>, <<-CHUNKSIZE, 0, 0>>}

\* The chunk stores and key-value sets of the ghosts st and kv that a file
\* does not hold: what a crash loses.
Lost(dk, st, kv) ==
  <<{pos \in DOMAIN st :
       \/ VTruncDiv(pos) \notin DOMAIN dk.chunks
       \/ dk.chunks[VTruncDiv(pos)] # serialize_mapchunk_data(st[pos])},
    {key \in DOMAIN kv : key \notin DOMAIN dk.kvstore \/ dk.kvstore[key] # kv[key]}>>

\* The process dies: the connection and its open transaction are gone, the
\* file keeps what was committed, and the server can be started again.  The
\* ghosts fall back to the writes the file holds.
Crash ==
  /\ backend = "sqlite"
  /\ backend' = "unstarted"
  /\ sqlite' = NoSqlite
  /\ ret' = [op |-> "crash", arg |-> None, ok |-> TRUE, val |-> Some(Lost(disk, stored, kv_set))]
  /\ stored' = [pos \in {q \in DOMAIN stored : VTruncDiv(q) \in DOMAIN disk.chunks} |->
                  deserialize_mapchunk_data(disk.chunks[VTruncDiv(pos)]).val]
  /\ kv_set' = disk.kvstore
  /\ UNCHANGED <<config, disk, failures>>
  /\ UNCHANGED mapgen_vars
  /\ UNCHANGED codec_vars

(***************************************************************************)
(* The codec on its own: chunks to serialize and blobs to deserialize.     *)
(***************************************************************************)
\* Chunks to serialize: the samples with any block at both ends.
CodecChunks ==
  {[base EXCEPT ![0] = b1, ![NBlocks - 1] = b2] :
     base \in ChunkSamples, b1 \in MapBlock, b2 \in MapBlock}

\* Every version byte other than the one the codec writes.
VersionBytes == 1 .. 255
\* The block stream of a chunk of Air.
AirStream == [k \in 1 .. NBlocks |-> 0]
\* Block streams that are no chunk: none, one block short, and streams with
\* a byte that is no block code at the start, in the middle and at the end.
BadStreams ==
  {<<>>, SubSeq(AirStream, 1, NBlocks - 1),
   [AirStream EXCEPT ![1] = 10], [AirStream EXCEPT ![(NBlocks + 1) \div 2] = 200],
   [AirStream EXCEPT ![NBlocks] = 255]}

\* Blobs to deserialize, as a row of the chunks table may hold them.
CodecBlobs ==
  {<<>>, <<0>>, <<0, 31, 139>> \o AirStream}
  \cup {<<v>> \o rest : v \in VersionBytes, rest \in {<<>>, GzEncode(AirStream)}}
  \cup {<<0>> \o GzEncode(st) : st \in BadStreams}
  \cup {<<0>> \o GzEncode(AirStream \o <<3>>)}
  \cup {serialize_mapchunk_data(c) : c \in ChunkSamples}

\* An initialized database file with the given chunk rows.
FileWith(rows) ==
  [EmptyFile EXCEPT !.app_id = MEHLON_SQLITE_APP_ID, !.user_version = USER_VERSION,
                    !.chunks = rows]

Serialize ==
  /\ codec.chunk # None /\ codec.blob = None
  /\ codec' = [codec EXCEPT !.blob = Some(serialize_mapchunk_data(codec.chunk[1]))]
  /\ UNCHANGED mapgen_vars
  /\ UNCHANGED storage_vars

Deserialize ==
  /\ codec.blob # None /\ codec.res = None
  /\ codec' = [codec EXCEPT !.res = Some(deserialize_mapchunk_data(codec.blob[1]))]
  /\ UNCHANGED mapgen_vars
  /\ UNCHANGED storage_vars

(***************************************************************************)
(* Specifications.                                                         *)
(***************************************************************************)
\* Both generator instances are created with the same seed.
InitMapgenVars ==
  /\ \E s \in Seeds : maps = [i \in Instances |-> MapgenMap_new(s)]
  /\ delivered = [i \in Instances |-> <<>>]
  /\ calls = [i \in Instances |-> <<>>]
  /\ direct = NoDirect

\* Before storage_backend_from_config: a configuration and a file system.
InitStorageVars ==
  /\ config \in [map_storage_path : ConfigPaths]
  /\ disk \in InitialDisks
  /\ backend = "unstarted"
  /\ sqlite = NoSqlite
  /\ ret = NoCall
  /\ stored = <<>>
  /\ kv_set = <<>>
  /\ failures = 0
  /\ codec = NoCodec

\* The generator alone: no storage is configured.
InitMapgen ==
  /\ InitMapgenVars
  /\ config = [map_storage_path |-> None]
  /\ disk = AbsentFile
  /\ backend = "unstarted"
  /\ sqlite = NoSqlite
  /\ ret = NoCall
  /\ stored = <<>>
  /\ kv_set = <<>>
  /\ failures = 0
  /\ codec = NoCodec

\* The storage alone: the generator instances stay as created.
InitStorage ==
  /\ InitStorageVars
  /\ maps = [i \in Instances |-> MapgenMap_new(0)]
  /\ delivered = [i \in Instances |-> <<>>]
  /\ calls = [i \in Instances |-> <<>>]
  /\ direct = NoDirect

\* The codec alone: a chunk to serialize, or a blob to deserialize that is
\* also the row of chunk (0, 0, 0) of the configured database.
InitCodec ==
  /\ maps = [i \in Instances |-> MapgenMap_new(0)]
  /\ delivered = [i \in Instances |-> <<>>]
  /\ calls = [i \in Instances |-> <<>>]
  /\ direct = NoDirect
  /\ config = [map_storage_path |-> Some("map.sqlite")]
  /\ backend = "unstarted"
  /\ sqlite = NoSqlite
  /\ ret = NoCall
  /\ stored = <<>>
  /\ kv_set = <<>>
  /\ failures = 0
  /\ \/ \E c \in CodecChunks :
          /\ codec = [chunk |-> Some(c), blob |-> None, res |-> None]
          /\ disk = FileWith(<<>>)
     \/ \E b \in CodecBlobs :
          /\ codec = [chunk |-> None, blob |-> Some(b), res |-> None]
          /\ disk = FileWith(<<0, 0, 0>> :> b)

\* The private functions of the generator, called one at a time.
NextStamp ==
  \/ \E pos \in StampChunks : GenChunkPhaseOne(pos)
  \/ \E pos \in StampAnchors : SpawnTreeMapgen(pos)

NextMapgen ==
  \E i \in Instances : \E a \in AreaRequests : GenChunksInArea(i, a[1], a[2])

\* One generator alone.
NextSingle ==
  \E a \in AreaRequests : GenChunksInArea(1, a[1], a[2])

StartupFails == {"none", "open", "pragma", "set_app_id", "set_user_version", "create_table"}

\* Startup, then chunk stores and loads at a tick cadence.
NextStorage ==
  \/ \E fail \in StartupFails : Startup(fail)
  \/ \E pos \in AlignedPositions, data \in ChunkSamples,
        fail \in {"none", "commit", "begin", "insert"} :
        WithinCadence /\ StoreChunk(pos, data, fail)
  \/ \E fail \in {"none", "commit"} : Tick(fail)
  \/ \E pos \in AlignedPositions, fail \in {"none", "select"} : LoadChunk(pos, fail)

\* No tick cadence: one position, stored over and over, and ticks.
NextBatching ==
  \/ \E fail \in StartupFails : Startup(fail)
  \/ \E data \in ChunkSamples, fail \in {"none", "commit", "begin", "insert"} :
        StoreChunk(<<0, 0, 0>>, data, fail)
  \/ \E fail \in {"none", "commit"} : Tick(fail)

\* Startup, then every operation on the backend when it is the null one.
NextNull ==
  \/ \E fail \in StartupFails : Startup(fail)
  \/ /\ backend = "null"
     /\ \/ \E pos \in AlignedPositions, data \in ChunkSamples : StoreChunk(pos, data, "none")
        \/ Tick("none")
        \/ \E pos \in AlignedPositions : LoadChunk(pos, "none")
        \/ \E key \in Keys : GetGlobalKv(key, "none")
        \/ \E key \in Keys, content \in Contents : SetGlobalKv(key, content, "none")

\* Startup, then the key-value store next to stores, loads and ticks of one
\* chunk.
NextKv ==
  \/ Startup("none")
  \/ \E key \in Keys, content \in Contents, fail \in {"none", "insert"} :
        SetGlobalKv(key, content, fail)
  \/ \E key \in Keys : GetGlobalKv(key, "none")
  \/ WithinCadence /\ StoreChunk(<<0, 0, 0>>, fully_air, "none")
  \/ Tick("none")
  \/ LoadChunk(<<0, 0, 0>>, "none")

\* Raw positions stored and loaded at a tick cadence.
NextRaw ==
  \/ Startup("none")
  \/ \E pos \in RawPositions, data \in ChunkSamples :
        WithinCadence /\ StoreChunk(pos, data, "none")
  \/ Tick("none")
  \/ \E pos \in RawPositions : LoadChunk(pos, "none")

\* Chunk stores without a tick cadence, ticks, and crashes followed by a
\* restart.
NextCrash ==
  \/ Startup("none")
  \/ \E pos \in AlignedPositions, data \in ChunkSamples : StoreChunk(pos, data, "none")
  \/ Tick("none")
  \/ Crash

\* Sets of one key next to stores of one chunk without a tick cadence,
\* ticks, and crashes followed by a restart.
NextKvCrash ==
  \/ Startup("none")
  \/ StoreChunk(<<0, 0, 0>>, fully_air, "none")
  \/ Tick("none")
  \/ \E content \in Contents : SetGlobalKv("seed", content, "none")
  \/ Crash

\* The codec applied to its inputs, and the stored blob loaded.
NextCodec ==
  \/ Serialize
  \/ Deserialize
  \/ Startup("none")
  \/ LoadChunk(<<0, 0, 0>>, "none")

Spec == InitMapgen /\ [][NextMapgen]_vars

SpecStorage == InitStorage /\ [][NextStorage]_vars

SpecBatching == InitStorage /\ [][NextBatching]_vars

SpecNull == InitStorage /\ [][NextNull]_vars

SpecKv == InitStorage /\ [][NextKv]_vars

SpecCodec == InitCodec /\ [][NextCodec]_vars

SpecStamp == InitMapgen /\ [][NextStamp]_vars

SpecSingle == InitMapgen /\ [][NextSingle]_vars

SpecRaw == InitStorage /\ [][NextRaw]_vars

SpecCrash == InitStorage /\ [][NextCrash]_vars

SpecKvCrash == InitStorage /\ [][NextKvCrash]_vars

(***************************************************************************)
(* Helpers of the properties of the generator.                             *)
(***************************************************************************)
\* The chunk positions of the inclusive range pos_min .. pos_max, for
\* chunk-aligned corners.
RangeChunks(pos_min, pos_max) ==
  {<<x, y, z>> : x \in pos_min[1] .. pos_max[1], y \in pos_min[2] .. pos_max[2],
                 z \in pos_min[3] .. pos_max[3]}
  \cap {<<x * CHUNKSIZE, y * CHUNKSIZE, z * CHUNKSIZE>> :
          x \in -4 .. 4, y \in -4 .. 4, z \in -4 .. 4}

IsDone(map, pos) ==
  pos \in DOMAIN map.chunks /\ map.chunks[pos].generation_phase = Done

\* Instance i makes a call in this step; LastCall is that call afterwards.
Called(i) == calls'[i] # calls[i]
LastCall(i) == calls[i][Len(calls[i])]

\* The callbacks of the step of instance i.
StepOut(i) == SubSeq(delivered'[i], Len(delivered[i]) + 1, Len(delivered'[i]))

DeliveredPos(i) == {delivered[i][k].pos : k \in DOMAIN delivered[i]}

\* C1: for a fixed seed the data a chunk is delivered with does not depend
\* on the order of the area requests: whenever both instances (same seed,
\* any two call sequences) have delivered chunk P, they delivered the same
\* data for P.
C1_DeliveryOrderIndependent ==
  \A a \in DOMAIN delivered[1], b \in DOMAIN delivered[2] :
     delivered[1][a].pos = delivered[2][b].pos
       => delivered[1][a].data = delivered[2][b].data

C3_DeliveredAtMostOnce ==
  \A i \in Instances : \A a, b \in DOMAIN delivered[i] :
     delivered[i][a].pos = delivered[i][b].pos => a = b

\* An overlapping later request: the second call covers a chunk the first
\* one delivered, and delivers another one.
C3_Witness ==
  \E i \in Instances :
    /\ Len(calls[i]) = 2
    /\ calls[i][1].pos_min = calls[i][2].pos_min
    /\ calls[i][1].pos_max # calls[i][2].pos_max
    /\ Len(delivered[i]) = 2

\* C4: a call on a range in which every chunk is already Done invokes the
\* callback zero times and leaves the whole cache unchanged.
C4_AllDoneIsNoOp ==
  [][\A i \in Instances :
       (Called(i) /\ \A p \in RangeChunks(LastCall(i).pos_min, LastCall(i).pos_max)' :
                        IsDone(maps[i], p))
         => (maps'[i] = maps[i] /\ delivered'[i] = delivered[i])]_vars

\* A range is requested a second time, or after a range that covers it.
C4_Witness ==
  \E i \in Instances :
    /\ Len(calls[i]) = 2
    /\ RangeChunks(calls[i][2].pos_min, calls[i][2].pos_max)
         \subseteq RangeChunks(calls[i][1].pos_min, calls[i][1].pos_max)
    /\ Len(delivered[i]) >= 1

\* C5: when a call with chunk-aligned pos_min <= pos_max returns, every
\* chunk of the range is Done, and the callbacks of the call are exactly the
\* chunks of the range that were not Done before it, once each.
C5_DeliversExactlyNotDone ==
  [][\A i \in Instances :
       Called(i) =>
         LET range == RangeChunks(LastCall(i).pos_min, LastCall(i).pos_max)'
             out == StepOut(i)
         IN /\ ~maps'[i].panicked
            /\ \A p \in range : IsDone(maps'[i], p)
            /\ {out[k].pos : k \in DOMAIN out} = {p \in range : ~IsDone(maps[i], p)}
            /\ \A a, b \in DOMAIN out : out[a].pos = out[b].pos => a = b]_vars

\* A two-chunk range was requested after one of its chunks was delivered.
C5_Witness ==
  \E i \in Instances :
    /\ Len(calls[i]) = 2
    /\ Cardinality(RangeChunks(calls[i][1].pos_min, calls[i][1].pos_max)) = 1
    /\ Cardinality(RangeChunks(calls[i][2].pos_min, calls[i][2].pos_max)) = 2
    /\ DeliveredPos(i) = RangeChunks(calls[i][2].pos_min, calls[i][2].pos_max)

\* The 26 chunk positions at Chebyshev distance 1 of chunk position p.
Neighbours(p) ==
  {VAdd(p, VScale(d, CHUNKSIZE)) :
     d \in ({-1, 0, 1} \X {-1, 0, 1} \X {-1, 0, 1}) \ {<<0, 0, 0>>}}

\* The chunk positions of the range of call c padded by s chunks.
PaddedChunks(c, s) ==
  LET seq == Pad(VTruncDiv(c.pos_min), VTruncDiv(c.pos_max), s) IN
  {seq[k] : k \in DOMAIN seq}

Blocks(data) == {data[k] : k \in DOMAIN data}

\* C16: every chunk in phase Done has its 26 neighbouring chunks in the
\* cache, each in phase PhaseTwo or Done.
C16_DoneHasNeighbours ==
  \A i \in Instances : \A p \in DOMAIN maps[i].chunks :
     maps[i].chunks[p].generation_phase = Done =>
       \A q \in Neighbours(p) :
          /\ q \in DOMAIN maps[i].chunks
          /\ maps[i].chunks[q].generation_phase >= PhaseTwo

\* A Done chunk with a Done neighbour and a neighbour that is in PhaseTwo.
C16_Witness ==
  \E i \in Instances : \E p \in DOMAIN maps[i].chunks :
    /\ IsDone(maps[i], p)
    /\ Cardinality(Neighbours(p)) = 26
    /\ \E q \in Neighbours(p) : IsDone(maps[i], q)
    /\ \E q \in Neighbours(p) : maps[i].chunks[q].generation_phase = PhaseTwo

\* C17: a call changes the block data of no chunk that was Done before it,
\* on whatever range it is, so that after every call each chunk delivered so
\* far still holds the data it was delivered with.
C17_DoneDataIsFinal ==
  [][\A i \in Instances :
       /\ \A p \in DOMAIN maps[i].chunks :
            IsDone(maps[i], p) =>
              /\ p \in DOMAIN maps'[i].chunks
              /\ maps'[i].chunks[p].data = maps[i].chunks[p].data
       /\ \A k \in DOMAIN delivered'[i] :
            maps'[i].chunks[delivered'[i][k].pos].data = delivered'[i][k].data]_vars

\* A chunk was delivered with a tree in it by the first call, and the second
\* call stamped a tree of a chunk the first one had not brought to PhaseTwo.
C17_Witness ==
  \E i \in Instances :
    /\ Len(calls[i]) = 2 /\ Len(delivered[i]) >= 1
    /\ delivered[i][1].pos \in RangeChunks(calls[i][1].pos_min, calls[i][1].pos_max)
    /\ "Tree" \in Blocks(delivered[i][1].data)
    /\ \E k \in DOMAIN maps[i].stamped :
         btchn(maps[i].stamped[k]) \notin PaddedChunks(calls[i][1], 1)

\* C18: no call lowers the generation phase of a chunk or drops a chunk,
\* and gen_chunk_phase_two on a Done chunk leaves it Done.
C18_PhaseMonotone ==
  [][\A i \in Instances : \A p \in DOMAIN maps[i].chunks :
       /\ p \in DOMAIN maps'[i].chunks
       /\ maps'[i].chunks[p].generation_phase >= maps[i].chunks[p].generation_phase
       /\ IsDone(maps[i], p) =>
            Map_gen_chunk_phase_two(maps[i], p).chunks[p].generation_phase = Done]_vars

\* The second call ran phase two over a chunk outside its range that the
\* first call had delivered.
C18_Witness ==
  \E i \in Instances : \E p \in DOMAIN maps[i].chunks :
    /\ Len(calls[i]) = 2
    /\ IsDone(maps[i], p)
    /\ p \in RangeChunks(calls[i][1].pos_min, calls[i][1].pos_max)
    /\ p \notin RangeChunks(calls[i][2].pos_min, calls[i][2].pos_max)
    /\ p \in PaddedChunks(calls[i][2], 1)
    /\ Len(delivered[i]) = 3

\* The spawn points phase one computes for chunk p of map m.
PhaseOnePoints(m, p) ==
  LET pts == PhaseOneChunks[m.seed][p].tree_spawn_points IN
  {pts[k] : k \in DOMAIN pts}

\* C19: a chunk in phase PhaseTwo or Done has an empty spawn-point list and
\* gen_chunk_phase_two on it stamps nothing and leaves the chunk, the set of
\* chunks and the phase as they are; a chunk in PhaseOne still has
\* the list phase one computed; and the trees stamped so far are the spawn
\* points of the chunks in PhaseTwo or Done, each one stamped exactly once.
C19_PhaseTwoOnce ==
  \A i \in Instances :
    LET m == maps[i]
        past == {p \in DOMAIN m.chunks : m.chunks[p].generation_phase >= PhaseTwo}
    IN /\ \A p \in past :
            /\ m.chunks[p].tree_spawn_points = <<>>
            /\ LET r == Map_gen_chunk_phase_two(m, p) IN
                 /\ DOMAIN r.chunks = DOMAIN m.chunks
                 /\ r.chunks[p] = m.chunks[p]
                 /\ r.stamped = m.stamped
                 /\ r.panicked = m.panicked
       /\ \A p \in DOMAIN m.chunks \ past :
            m.chunks[p].tree_spawn_points = PhaseOneChunks[m.seed][p].tree_spawn_points
       /\ \A a, b \in DOMAIN m.stamped : m.stamped[a] = m.stamped[b] => a = b
       /\ {m.stamped[k] : k \in DOMAIN m.stamped} = UNION {PhaseOnePoints(m, p) : p \in past}

\* Two overlapping requests both ran phase two over chunks with trees, and
\* a chunk in PhaseOne still holds spawn points.
C19_Witness ==
  \E i \in Instances :
    /\ Len(calls[i]) = 2
    /\ calls[i][1].pos_min = calls[i][2].pos_min
    /\ calls[i][1].pos_max # calls[i][2].pos_max
    /\ Len(maps[i].stamped) >= 2
    /\ \E k \in DOMAIN maps[i].stamped :
         /\ btchn(maps[i].stamped[k]) \in PaddedChunks(calls[i][1], 1)
         /\ btchn(maps[i].stamped[k]) \in PaddedChunks(calls[i][2], 1)
    /\ \E p \in DOMAIN maps[i].chunks :
         /\ maps[i].chunks[p].generation_phase = PhaseOne
         /\ maps[i].chunks[p].tree_spawn_points # <<>>

\* C20: no unwrap() of a call fails: every block a stamped tree writes to
\* lies in a chunk of the cache.
C20_StampsHitTheCache ==
  \A i \in Instances :
    /\ ~maps[i].panicked
    /\ \A k \in DOMAIN maps[i].stamped : \A n \in DOMAIN tree_schematic :
         btchn(VAdd(maps[i].stamped[k], tree_schematic[n][1])) \in DOMAIN maps[i].chunks

\* A tree was stamped across a chunk border into a chunk that only phase
\* one has run on.
C20_Witness ==
  \E i \in Instances : \E k \in DOMAIN maps[i].stamped : \E n \in DOMAIN tree_schematic :
    LET target == btchn(VAdd(maps[i].stamped[k], tree_schematic[n][1])) IN
    /\ target # btchn(maps[i].stamped[k])
    /\ target \in DOMAIN maps[i].chunks
    /\ maps[i].chunks[target].generation_phase = PhaseOne
    /\ "Leaves" \in Blocks(maps[i].chunks[target].data)

\* The chunks the items of a tree stamped at pos are written to.
TreeTargets(pos) ==
  {btchn(VAdd(pos, tree_schematic[n][1])) : n \in DOMAIN tree_schematic}

\* The step was a direct spawn_tree_mapgen call.
StampStep == direct'.op = "spawn_tree_mapgen" /\ maps' # maps

\* The step was a direct MapgenMap::gen_chunk_phase_one call.
PhaseOneStep == direct'.op = "gen_chunk_phase_one" /\ direct' # direct

C22_PhaseOneOnlyFillsVacant ==
  [][/\ DOMAIN maps[1].chunks \subseteq DOMAIN maps'[1].chunks
     /\ StampStep => DOMAIN maps'[1].chunks = DOMAIN maps[1].chunks
     /\ PhaseOneStep =>
          LET pos == direct'.pos IN
          IF pos \in DOMAIN maps[1].chunks
            THEN maps'[1] = maps[1]
            ELSE /\ DOMAIN maps'[1].chunks = DOMAIN maps[1].chunks \cup {pos}
                 /\ maps'[1].chunks[pos] = gen_chunk_phase_one(maps[1].seed, pos)
                 /\ \A p \in DOMAIN maps[1].chunks : maps'[1].chunks[p] = maps[1].chunks[p]
                 /\ maps'[1].stamped = maps[1].stamped]_vars

\* Phase one was requested again for a chunk that holds leaves stamped into
\* it, and the leaves are still there.
C22_Witness ==
  /\ direct.op = "gen_chunk_phase_one" /\ ~maps[1].panicked
  /\ direct.pos \in DOMAIN maps[1].chunks
  /\ maps[1].stamped # <<>>
  /\ "Leaves" \in Blocks(maps[1].chunks[direct.pos].data)

\* The block of the tree at offset d from its anchor: the trunk at heights
\* 0..3 of the anchor column, leaves in the 3x3 layers at heights 3, 4, 5.
TreeBlockAt(d) ==
  IF d[1] = 0 /\ d[2] = 0 /\ d[3] \in 0 .. 3 THEN Some("Tree")
  ELSE IF d[1] \in -1 .. 1 /\ d[2] \in -1 .. 1 /\ d[3] \in 3 .. 5 THEN Some("Leaves")
  ELSE None

\* The absolute position of block k of the chunk at p.
BlkPos(p, k) ==
  VAdd(p, <<k \div (CHUNKSIZE * CHUNKSIZE), (k \div CHUNKSIZE) % CHUNKSIZE, k % CHUNKSIZE>>)

\* C23: a completed tree stamp at an anchor leaves, at every position of
\* every cached chunk, the tree's block if the position is one of the
\* tree's (whatever was there before) and the block that was there
\* otherwise; phases and spawn points stay as they were.
C23_StampWritesExactlyTheTree ==
  [][(StampStep /\ ~maps'[1].panicked) =>
       \A p \in DOMAIN maps[1].chunks :
         /\ maps'[1].chunks[p].generation_phase = maps[1].chunks[p].generation_phase
         /\ maps'[1].chunks[p].tree_spawn_points = maps[1].chunks[p].tree_spawn_points
         /\ \A k \in 0 .. NBlocks - 1 :
              LET d == VAdd(BlkPos(p, k), VScale(direct'.pos, -1)) IN
              maps'[1].chunks[p].data[k] =
                IF TreeBlockAt(d) # None THEN TreeBlockAt(d)[1] ELSE maps[1].chunks[p].data[k]]_vars

\* A tree was stamped over an earlier one across a chunk border: the top of
\* the earlier trunk is now a leaf of the later tree.
C23_Witness ==
  /\ direct.op = "spawn_tree_mapgen" /\ ~maps[1].panicked
  /\ Len(maps[1].stamped) >= 2
  /\ \E k \in DOMAIN maps[1].stamped :
       LET top == VAdd(maps[1].stamped[k], <<0, 0, 3>>) IN
       /\ maps[1].stamped[k] # direct.pos
       /\ btchn(top) # btchn(direct.pos)
       /\ maps[1].chunks[btchn(top)].data[BlkIndex(btpic(top))] = "Leaves"

\* C24: in every cached chunk with origin z = 0, and in every delivered
\* copy of one, the blocks at local z = 0 are the ones phase one put there
\* (no stamp writes to them), and the block at local z = 0 of a column whose
\* elevation relative to the chunk is <= 0 is Water.
C24_FloorWaterSurvives ==
  \A i \in Instances :
    LET floor(p, data) ==
          \A x, y \in 0 .. CHUNKSIZE - 1 :
            /\ data[BlkIndex(<<x, y, 0>>)]
                 = PhaseOneChunks[maps[i].seed][p].data[BlkIndex(<<x, y, 0>>)]
            /\ ColumnEl(maps[i].seed, p, x, y) <= 0 => data[BlkIndex(<<x, y, 0>>)] = "Water"
    IN /\ \A p \in DOMAIN maps[i].chunks : p[3] = 0 => floor(p, maps[i].chunks[p].data)
       /\ \A k \in DOMAIN delivered[i] :
            delivered[i][k].pos[3] = 0 => floor(delivered[i][k].pos, delivered[i][k].data)

\* A delivered floor-level chunk has a water column with leaves of a
\* stamped tree above the water.
C24_Witness ==
  \E i \in Instances : \E k \in DOMAIN delivered[i] :
    LET p == delivered[i][k].pos IN
    /\ p[3] = 0
    /\ \E x, y \in 0 .. CHUNKSIZE - 1 :
         /\ ColumnEl(maps[i].seed, p, x, y) <= 0
         /\ delivered[i][k].data[BlkIndex(<<x, y, 0>>)] = "Water"
         /\ \E z \in 1 .. CHUNKSIZE - 1 : delivered[i][k].data[BlkIndex(<<x, y, z>>)] = "Leaves"

\* C27: every spawn point phase one records for a cached chunk lies in that
\* chunk at a local height in 1..CHUNKSIZE-1, only chunks with origin
\* z >= 0 record any, and every block of a tree at such a point, and of
\* every tree stamped, lies in the chunk of the point or in the neighbour at
\* a chunk offset dx, dy in {-1, 0, 1} and dz in {0, 1}.
C27_TreesStayNear ==
  \A i \in Instances :
    LET near(pt) ==
          \A n \in DOMAIN tree_schematic :
            LET t == btchn(VAdd(pt, tree_schematic[n][1]))
                c == btchn(pt)
            IN /\ t[1] - c[1] \in {-CHUNKSIZE, 0, CHUNKSIZE}
               /\ t[2] - c[2] \in {-CHUNKSIZE, 0, CHUNKSIZE}
               /\ t[3] - c[3] \in {0, CHUNKSIZE}
    IN /\ \A p \in DOMAIN maps[i].chunks : \A pt \in PhaseOnePoints(maps[i], p) :
            /\ btchn(pt) = p
            /\ btpic(pt)[3] \in 1 .. CHUNKSIZE - 1
            /\ p[3] >= 0
            /\ near(pt)
       /\ \A k \in DOMAIN maps[i].stamped : near(maps[i].stamped[k])

\* Trees were stamped from a chunk above floor level and from the highest
\* local height, and one of them reached the chunk diagonally above.
C27_Witness ==
  \E i \in Instances :
    /\ \E k \in DOMAIN maps[i].stamped : btchn(maps[i].stamped[k])[3] = CHUNKSIZE
    /\ \E k \in DOMAIN maps[i].stamped : btpic(maps[i].stamped[k])[3] = CHUNKSIZE - 1
    /\ \E k \in DOMAIN maps[i].stamped : \E n \in DOMAIN tree_schematic :
         LET t == btchn(VAdd(maps[i].stamped[k], tree_schematic[n][1]))
             c == btchn(maps[i].stamped[k])
         IN t[1] # c[1] /\ t[3] = c[3] + CHUNKSIZE

(***************************************************************************)
(* Properties of the storage backends.                                     *)
(***************************************************************************)
IsSqlite == backend = "sqlite"

\* The chunk a committed or visible row decodes to, Ok(data) or Err.
RowData(table, pos) == deserialize_mapchunk_data(table[VTruncDiv(pos)])

\* C6: on the SQLite backend the number of store_chunk writes held in the
\* open, not yet committed transaction is at most WRITES_PER_TRANSACTION.
C6_AtMostFiftyPending ==
  IsSqlite => sqlite.conn.pending <= WRITES_PER_TRANSACTION

\* C7: when tick() returns Ok no transaction is open and every store_chunk
\* write that succeeded before is committed; a tick that found a
\* transaction open has reset the counter to WRITES_PER_TRANSACTION, and a
\* tick that found none has changed nothing.
C7_TickCommits ==
  [][(IsSqlite /\ ret'.op = "tick" /\ ret'.ok) =>
       /\ sqlite'.conn.autocommit
       /\ \A p \in DOMAIN stored :
             /\ VTruncDiv(p) \in DOMAIN disk'.chunks
             /\ RowData(disk'.chunks, p) = Ok(stored[p])
       /\ ~sqlite.conn.autocommit => sqlite'.ctr = WRITES_PER_TRANSACTION
       /\ sqlite.conn.autocommit => (sqlite' = sqlite /\ disk' = disk)]_vars

\* A tick has committed a transaction that held writes.
C7_Witness ==
  /\ IsSqlite /\ ret.op = "tick" /\ ret.ok
  /\ sqlite.ctr = WRITES_PER_TRANSACTION
  /\ stored # <<>> /\ disk.chunks # <<>>

\* C8: for chunk-aligned positions load_chunk(P) returns the data of the
\* most recent successful store_chunk at P, committed or not, and absence
\* when P was never stored; stores at other positions do not change it.
C8_LoadReturnsLatestStore ==
  IsSqlite =>
    /\ \A p \in AlignedPositions :
          Sqlite_load_chunk(sqlite, disk, p, "none").res
            = IF p \in DOMAIN stored THEN Ok(Some(stored[p])) ELSE Ok(None)
    /\ (ret.op = "load_chunk" /\ ret.ok) =>
          ret.val = IF ret.arg \in DOMAIN stored THEN Some(stored[ret.arg]) ELSE None

\* A load returned a chunk that was overwritten after the last commit, with
\* another position stored in between.
C8_Witness ==
  /\ IsSqlite /\ ret.op = "load_chunk" /\ ret.ok /\ ret.val # None
  /\ ~sqlite.conn.autocommit
  /\ DOMAIN stored = AlignedPositions
  /\ \E q \in AlignedPositions : stored[q] # stored[ret.arg]
  /\ VTruncDiv(ret.arg) \in DOMAIN disk.chunks
  /\ disk.chunks[VTruncDiv(ret.arg)] # sqlite.conn.chunks[VTruncDiv(ret.arg)]

\* C9: on NullStorageBackend every operation returns Ok, load_chunk always
\* returns None and get_global_kv always returns None, whatever was stored
\* or set before.
C9_NullNeverErrsNorLoads ==
  backend = "null" =>
    /\ ret.ok
    /\ ret.op \in {"load_chunk", "get_global_kv"} => ret.val = None

\* A load at a position that was stored before, after a key was set.
C9_Witness ==
  /\ backend = "null" /\ ret.op = "load_chunk"
  /\ ret.arg \in DOMAIN stored /\ kv_set # <<>>

\* The file exists and its header is not the expected one.
HeaderMismatch(dk) ==
  dk.state = "file"
  /\ (dk.app_id # MEHLON_SQLITE_APP_ID \/ dk.user_version # USER_VERSION)

C11_AlwaysABackend ==
  [][(backend = "unstarted" /\ backend' # backend) =>
       /\ backend' \in {"sqlite", "null"}
       /\ backend' = "sqlite" <=>
            /\ config.map_storage_path # None
            /\ disk'.state = "file" /\ expect_user_ver(disk')
            /\ failures' = failures
       /\ backend' = "sqlite" => sqlite' = NewBackend(disk')
       /\ config.map_storage_path = None => (backend' = "null" /\ disk' = disk)]_vars

\* The file was created with the right header and the last statement of
\* init_db failed: the null backend is selected.
C11_Witness ==
  /\ backend = "null" /\ config.map_storage_path # None
  /\ disk.state = "file" /\ expect_user_ver(disk)
  /\ failures = 1 /\ ret = NoCall

(***************************************************************************)
(* Properties of the codec.                                                *)
(***************************************************************************)
\* C12: decoding the code of a block type gives the block type back, the
\* codes are exactly 0..9 and no two block types share one, and
\* deserializing the serialization of a chunk gives Ok of that chunk.
C12_CodecRoundTrips ==
  /\ \A v \in MapBlock : number_to_mapblock(mapblock_to_number(v)) = Some(v)
  /\ {mapblock_to_number(v) : v \in MapBlock} = 0 .. 9
  /\ \A v, w \in MapBlock : mapblock_to_number(v) = mapblock_to_number(w) => v = w
  /\ (codec.chunk # None /\ codec.res # None) => codec.res[1] = Ok(codec.chunk[1])

\* A chunk holding every block type went through serialize and deserialize.
C12_Witness ==
  /\ codec.chunk # None /\ codec.res # None /\ codec.res[1].ok
  /\ {codec.chunk[1][i] : i \in 0 .. NBlocks - 1} = MapBlock
  /\ codec.chunk[1][0] = "Coal" /\ codec.chunk[1][NBlocks - 1] = "Cactus"

\* C13: a blob whose first byte is any of 1..255 deserializes to an error
\* whatever follows that byte, and a serialized chunk starts with byte 0.
C13_VersionChecked ==
  codec.blob # None =>
    /\ codec.chunk # None => codec.blob[1][1] = 0
    /\ (codec.res # None /\ codec.blob[1] # <<>> /\ codec.blob[1][1] \in VersionBytes)
         => ~codec.res[1].ok
    /\ codec.blob[1] # <<>> =>
         \A v \in VersionBytes :
            ~deserialize_mapchunk_data([codec.blob[1] EXCEPT ![1] = v]).ok

\* A blob that is a well-formed chunk behind the version byte 255 was
\* deserialized.
C13_Witness ==
  /\ codec.chunk = None /\ codec.blob # None /\ codec.res # None
  /\ Len(codec.blob[1]) > 1 /\ codec.blob[1][1] = 255
  /\ ~codec.res[1].ok
  /\ GzDecode(Tail(codec.blob[1])) = Some(AirStream)

\* The blob is empty, or its block stream decompresses and is shorter than
\* a chunk or holds a byte that is no block code.
Malformed(blob) ==
  \/ blob = <<>>
  \/ /\ blob[1] = 0
     /\ GzDecode(Tail(blob)) # None
     /\ LET st == GzDecode(Tail(blob))[1] IN
          \/ Len(st) < NBlocks
          \/ \E k \in 1 .. NBlocks : st[k] \notin 0 .. 9

\* C14: a malformed blob deserializes to an error, never to Ok of a chunk
\* with Air in place of what is missing or invalid, and load_chunk of a row
\* holding it returns that error, neither a chunk nor absence.
C14_MalformedIsError ==
  (codec.blob # None /\ Malformed(codec.blob[1])) =>
    /\ codec.res # None => ~codec.res[1].ok
    /\ ret.op = "load_chunk" => ~ret.ok
    /\ IsSqlite => ~Sqlite_load_chunk(sqlite, disk, <<0, 0, 0>>, "none").res.ok

\* A block stream of Air that is one block short was deserialized and
\* loaded.
C14_Witness ==
  /\ codec.blob = Some(<<0>> \o GzEncode(SubSeq(AirStream, 1, NBlocks - 1)))
  /\ codec.res # None /\ ~codec.res[1].ok
  /\ IsSqlite /\ ret.op = "load_chunk" /\ ~ret.ok

(***************************************************************************)
(* Properties of the key-value store.                                      *)
(***************************************************************************)
\* What get_global_kv(k) is to return by the successful sets kv so far.
KvExpected(kv, k) == IF k \in DOMAIN kv THEN Ok(Some(kv[k])) ELSE Ok(None)

\* C15: on the SQLite backend, after every operation, get_global_kv(k)
\* returns the content of the latest successful set_global_kv(k, _) and None
\* for a key never set, whatever stores, ticks, loads and sets of other keys
\* happened in between; and a set_global_kv leaves the chunk rows and what
\* load_chunk returns as they were.
C15_KvReadsLatestSet ==
  [][IsSqlite' =>
       /\ \A k \in Keys :
            Sqlite_get_global_kv(sqlite', disk', k, "none").res = KvExpected(kv_set', k)
       /\ (ret'.op = "get_global_kv" /\ ret'.ok) => Ok(ret'.val) = KvExpected(kv_set', ret'.arg)
       /\ ret'.op = "set_global_kv" =>
            /\ disk'.chunks = disk.chunks
            /\ stored' = stored
            /\ \A p \in AlignedPositions :
                 Sqlite_load_chunk(sqlite', disk', p, "none").res
                   = Sqlite_load_chunk(sqlite, disk, p, "none").res]_vars

\* A get returned a content that was set inside the open transaction of a
\* chunk store and is not committed, with the other key holding another
\* content.
C15_Witness ==
  /\ IsSqlite /\ ret.op = "get_global_kv" /\ ret.ok /\ ret.val # None
  /\ ~sqlite.conn.autocommit /\ stored # <<>>
  /\ DOMAIN kv_set = Keys /\ kv_set["seed"] # kv_set["players"]
  /\ ret.arg \in DOMAIN disk.kvstore /\ disk.kvstore[ret.arg] # ret.val[1]

\* C25 as stated: a successful store_chunk leaves a transaction open, and
\* with no failed statement the open transaction never holds
\* WRITES_PER_TRANSACTION writes when a store_chunk returns: the 50th
\* consecutive store has committed the 50 writes grouped since the backend
\* was opened or ticked.
C25_FiftiethStoreCommits ==
  (IsSqlite /\ failures = 0 /\ ret.op = "store_chunk" /\ ret.ok) =>
    /\ ~sqlite.conn.autocommit
    /\ sqlite.conn.pending < WRITES_PER_TRANSACTION

\* C26 as stated: load_chunk at a raw position returns None while no
\* position of the same chunk was stored, and the data stored at the one
\* position of its chunk that was stored.
C26_RowsFollowChunks ==
  IsSqlite =>
    \A q \in RawPositions :
      LET same == {p \in DOMAIN stored : btchn(p) = btchn(q)}
          res == Sqlite_load_chunk(sqlite, disk, q, "none").res
      IN /\ same = {} => res = Ok(None)
         /\ \A p \in same : same = {p} => res = Ok(Some(stored[p]))

\* The rows of the chunks table that hold the stores st.
RowsOf(st) ==
  [r \in {VTruncDiv(p) : p \in DOMAIN st} |->
     serialize_mapchunk_data(st[CHOOSE p \in DOMAIN st : VTruncDiv(p) = r])]

\* What load_chunk(p) is to return by the stores st.
LoadExpected(st, p) == IF p \in DOMAIN st THEN Ok(Some(st[p])) ELSE Ok(None)

\* C28: the chunk rows of the file change only in a tick or a store_chunk,
\* and then to the rows of all the successful stores made before that call,
\* so the file always holds the writes of a prefix of the successful stores;
\* every tick and every store_chunk that commits leaves exactly those rows;
\* a crash leaves the file as it is, and after the restart load_chunk
\* returns what the file held.
C28_SurvivorsAreAPrefix ==
  [][/\ (IsSqlite /\ disk'.chunks # disk.chunks) =>
          /\ ret'.op \in {"tick", "store_chunk"}
          /\ disk'.chunks = RowsOf(stored)
     /\ (IsSqlite /\ IsSqlite' /\ ret'.ok /\ ~sqlite.conn.autocommit
           /\ \/ ret'.op = "tick" /\ ret' # ret
              \/ ret'.op = "store_chunk" /\ stored' # stored /\ sqlite.ctr = 0) =>
          disk'.chunks = RowsOf(stored)
     /\ (IsSqlite /\ backend' = "unstarted") =>
          /\ disk' = disk
          /\ RowsOf(stored') = disk.chunks
     /\ (backend = "unstarted" /\ IsSqlite') =>
          \A p \in AlignedPositions :
            Sqlite_load_chunk(sqlite', disk', p, "none").res = LoadExpected(stored, p)]_vars

\* A crash lost the latest store of one chunk while an earlier store of
\* the same chunk and a store of the other chunk survived in the file.
C28_Witness ==
  /\ ret.op = "crash" /\ backend = "unstarted"
  /\ ret.val[1][1] = {<<0, 0, 0>>}
  /\ DOMAIN stored = AlignedPositions

\* C29: a successful set_global_kv leaves the write counter, the
\* transaction state and the chunk rows as they are; issued outside a
\* transaction it leaves every successful set in the file, issued inside one
\* it leaves the file as it is; otherwise the key-value rows of the file
\* change only when a tick or a store_chunk commits the open transaction,
\* and then to all the successful sets; a crash leaves the file as it is
\* and after the restart get_global_kv returns what the file held.
C29_KvDurableOnCommit ==
  [][/\ (IsSqlite /\ IsSqlite' /\ ret'.op = "set_global_kv" /\ ret'.ok) =>
          /\ sqlite'.ctr = sqlite.ctr
          /\ sqlite'.conn.autocommit = sqlite.conn.autocommit
          /\ sqlite'.conn.pending = sqlite.conn.pending
          /\ sqlite'.conn.chunks = sqlite.conn.chunks
          /\ disk'.chunks = disk.chunks
          /\ sqlite.conn.autocommit => disk'.kvstore = kv_set'
          /\ ~sqlite.conn.autocommit => disk'.kvstore = disk.kvstore
     /\ (IsSqlite /\ disk'.kvstore # disk.kvstore /\ ret'.op # "set_global_kv") =>
          /\ ret'.op \in {"tick", "store_chunk"}
          /\ ~sqlite.conn.autocommit
          /\ disk'.kvstore = kv_set
     /\ (IsSqlite /\ backend' = "unstarted") =>
          /\ disk' = disk
          /\ kv_set' = disk.kvstore
     /\ (backend = "unstarted" /\ IsSqlite') =>
          \A k \in Keys :
            Sqlite_get_global_kv(sqlite', disk', k, "none").res = KvExpected(disk.kvstore, k)]_vars

\* A crash lost a set made inside the open transaction of a chunk store,
\* while an earlier set of the key, made outside a transaction, survived.
C29_Witness ==
  /\ ret.op = "crash" /\ backend = "unstarted"
  /\ ret.val[1][2] = {"seed"}
  /\ "seed" \in DOMAIN disk.kvstore
  /\ disk.chunks = <<>>

=============================================================================
